---- MODULE Spec2Model ----
(***************************************************************************)
(* A model of the permission-set duplicate finder: the grant data classes  *)
(* (data_classes.py), DuplicateFinder.jaccard (duplicate_finder.py), the   *)
(* JaccardDifference accessors, the fetch of object permissions            *)
(* (connection.py) and the JSON cache (main.py).                           *)
(*                                                                         *)
(* Python values are modelled as follows.                                  *)
(*  - A dataclass instance is a record; its class is the field cls.        *)
(*  - None is the value None.                                              *)
(*  - A list and a tuple are sequences.                                    *)
(*  - A set is the sequence of its members in insertion order, without     *)
(*    two members that are equal under __eq__; what iterating it yields    *)
(*    is SetIter, which orders the members by their slot in the hash       *)
(*    table. String hashes are salted per process (seed), so the slot and  *)
(*    with it the iteration order differ from one run to the next.         *)
(*  - A float quotient of two set sizes is the exact fraction              *)
(*    [num, den]: for sizes below 2^26 the correctly rounded quotients     *)
(*    compare exactly as the fractions do, also against the literal 0.9.   *)
(*  - A reference to a PermissionSet object (JaccardDifference.permset1)   *)
(*    is the object's index in the list the finder holds.                  *)
(***************************************************************************)
EXTENDS Integers, Sequences, FiniteSets, TLC

VARIABLES
    permsets,    \* the list of PermissionSet objects main and the finder hold
    loaded,      \* how many of them main's loop has populated
    file,        \* permsets.json
    duplicates,  \* the list jaccard returned
    ret,         \* what the last call of a JaccardDifference accessor returned
    seed,        \* the salt of this process's string hashes
    pc           \* "load", "found" (jaccard has run on the bundles as they are),
                 \* "modified" (a bundle was assigned to after jaccard ran)

vars == <<permsets, loaded, file, duplicates, ret, seed, pc>>

None == "None"

\* ---------------------------------------------------------------- bounds

\* The most bundles the list handed to jaccard alone holds.
MaxPermsets == 3
\* The most bundles main loads and reports on.
MaxLoaded == 2
\* The system permissions the org defines.
MaxSystemPerms == 9
\* The hash salts a process may draw.
NumSeeds == 2

\* ----------------------------------------------------- program constants

\* SIMILARITY_THRESHOLD = 0.9, as the fraction ThresholdNum / ThresholdDen.
ThresholdNum == 9
ThresholdDen == 10

\* ------------------------------------------------------------- utilities

RECURSIVE SeqsUpTo(_, _)
\* Every sequence over S of length at most n.
SeqsUpTo(S, n) ==
    IF n <= 0 THEN {<<>>}
    ELSE LET shorter == SeqsUpTo(S, n - 1)
         IN  shorter \cup {Append(s, x) : s \in {t \in shorter : Len(t) = n - 1}, x \in S}

Range(s) == {s[i] : i \in 1..Len(s)}

\* ------------------------------------------------------------ data model

SystemPermission(name) ==
    [cls |-> "SystemPermission", name |-> name]

SetupEntityAccess(setup_entity_type, setup_entity_id) ==
    [cls |-> "SetupEntityAccess", setup_entity_type |-> setup_entity_type,
     setup_entity_id |-> setup_entity_id]

ObjectPermissions(sobject_type, perms) ==
    [cls |-> "ObjectPermissions", sobject_type |-> sobject_type, perms |-> perms]

FieldPermissions(sobject_type, sobject_field, perms) ==
    [cls |-> "FieldPermissions", sobject_type |-> sobject_type,
     sobject_field |-> sobject_field, perms |-> perms]

PermissionSetTabSetting(name, visibility) ==
    [cls |-> "PermissionSetTabSetting", name |-> name, visibility |-> visibility]

\* OBJECT_PERMISSIONS, in the order get_args yields them.
OBJECT_PERMISSIONS ==
    <<"PermissionsCreate", "PermissionsRead", "PermissionsEdit", "PermissionsDelete",
      "PermissionsViewAllRecords", "PermissionsModifyAllRecords">>

FIELD_PERMISSIONS == <<"PermissionsRead", "PermissionsEdit">>

PermissionSet(id, name, label, user_license, permission_set_license) ==
    [id |-> id, name |-> name, label |-> label,
     user_license |-> user_license,
     permission_set_license |-> permission_set_license,
     system_perms |-> <<>>, object_perms |-> <<>>, field_perms |-> <<>>,
     setup_entity_access |-> <<>>, permission_set_tab_setting |-> <<>>]

JaccardDifference(permset1, permset2, similarity) ==
    [permset1 |-> permset1, permset2 |-> permset2, similarity |-> similarity]

\* ----------------------------------------------------- hashing, equality

\* Every string the inputs use; a string's content is its place in this list.
Strings ==
    <<"PermissionsApi", "PermissionsViewSetup", "PermissionsRunReports",
      "PermissionsEditTask", "PermissionsManageUsers", "PermissionsViewAllData",
      "PermissionsModifyAllData", "PermissionsEditEvent", "PermissionsRunFlow",
      "PermissionsExportReport", "PermissionsImportLeads", "PermissionsSendEmail",
      "PermissionsCreate", "PermissionsRead", "PermissionsEdit", "PermissionsDelete",
      "PermissionsViewAllRecords", "PermissionsModifyAllRecords", "PermissionsBogus",
      "Account", "Name", "TabSet", "DefaultOn", "DefaultOff",
      "0PS1", "0PS2", "0PS3", "0PS4", "Sales", "Support", "Salesforce", "CRM User">>

StrCode(s) == CHOOSE i \in 1..Len(Strings) : Strings[i] = s

\* hash(str): salted by the process's seed.
StrHash(s, sd) == (StrCode(s) * (2 * sd + 1) + sd) % 64

RECURSIVE TupleHash(_)
\* hash(tuple): combines the members' hashes in order.
TupleHash(hs) ==
    IF hs = <<>> THEN 7
    ELSE (TupleHash(SubSeq(hs, 1, Len(hs) - 1)) * 5 + hs[Len(hs)]) % 64

PermsHash(perms, sd) == TupleHash([i \in 1..Len(perms) |-> StrHash(perms[i], sd)])

\* __hash__ of the five grant classes: the hash of the tuple of the fields; the
\* class is no part of it.
GrantHash(g, sd) ==
    CASE g.cls = "SystemPermission" ->
           TupleHash(<<StrHash(g.name, sd)>>)
      [] g.cls = "SetupEntityAccess" ->
           TupleHash(<<StrHash(g.setup_entity_type, sd), StrHash(g.setup_entity_id, sd)>>)
      [] g.cls = "ObjectPermissions" ->
           TupleHash(<<StrHash(g.sobject_type, sd), PermsHash(g.perms, sd)>>)
      [] g.cls = "FieldPermissions" ->
           TupleHash(<<StrHash(g.sobject_type, sd), StrHash(g.sobject_field, sd),
                       PermsHash(g.perms, sd)>>)
      [] g.cls = "PermissionSetTabSetting" ->
           TupleHash(<<StrHash(g.name, sd), StrHash(g.visibility, sd)>>)

\* ObjectPermissions.__eq__ with perms compared as sets instead of tuples.
GrantEqUnordered(a, b) ==
    CASE a.cls = "SystemPermission" ->
           b.cls = a.cls /\ <<a.name>> = <<b.name>>
      [] a.cls = "SetupEntityAccess" ->
           b.cls = a.cls /\ <<a.setup_entity_type, a.setup_entity_id>>
                            = <<b.setup_entity_type, b.setup_entity_id>>
      [] a.cls = "ObjectPermissions" ->
           b.cls = "ObjectPermissions"
           /\ <<a.sobject_type, Range(a.perms)>> = <<b.sobject_type, Range(b.perms)>>
      [] a.cls = "FieldPermissions" ->
           b.cls = "FieldPermissions"
           /\ <<a.sobject_type, a.sobject_field, Range(a.perms)>>
              = <<b.sobject_type, b.sobject_field, Range(b.perms)>>
      [] a.cls = "PermissionSetTabSetting" ->
           b.cls = a.cls /\ <<a.name, a.visibility>> = <<b.name, b.visibility>>

\* __eq__ of the five grant classes. The frozen dataclasses compare the field
\* tuples when the other object is of the very same class; ObjectPermissions and
\* FieldPermissions test isinstance and compare (fields..., tuple(perms)).
GrantEq(a, b) ==
    CASE a.cls = "SystemPermission" ->
           b.cls = a.cls /\ <<a.name>> = <<b.name>>
      [] a.cls = "SetupEntityAccess" ->
           b.cls = a.cls /\ <<a.setup_entity_type, a.setup_entity_id>>
                            = <<b.setup_entity_type, b.setup_entity_id>>
      [] a.cls = "ObjectPermissions" ->
           b.cls = "ObjectPermissions"
           /\ <<a.sobject_type, a.perms>> = <<b.sobject_type, b.perms>>
      [] a.cls = "FieldPermissions" ->
           b.cls = "FieldPermissions"
           /\ <<a.sobject_type, a.sobject_field, a.perms>>
              = <<b.sobject_type, b.sobject_field, b.perms>>
      [] a.cls = "PermissionSetTabSetting" ->
           b.cls = a.cls /\ <<a.name, a.visibility>> = <<b.name, b.visibility>>

\* PermissionSet.__eq__ comparing the names instead of the ids.
PermissionSetEqByName(a, b) == a.name = b.name

\* PermissionSet.__eq__: by id alone.
PermissionSetEq(a, b) == a.id = b.id

\* PermissionSet.__hash__: hash(self.id).
PermissionSetHash(p, sd) == StrHash(p.id, sd)

\* ------------------------------------------------------------------ sets

\* x in s: a member that is equal to x and has the same hash.
Member(x, s, sd) ==
    \E i \in 1..Len(s) : GrantEq(s[i], x) /\ GrantHash(s[i], sd) = GrantHash(x, sd)

RECURSIVE ToSet(_, _)
\* set(list): the members added one by one, one already present skipped.
ToSet(list, sd) ==
    IF list = <<>> THEN <<>>
    ELSE LET front == ToSet(SubSeq(list, 1, Len(list) - 1), sd)
             x == list[Len(list)]
         IN  IF Member(x, front, sd) THEN front ELSE Append(front, x)

\* a.intersection(b)
Intersection(a, b, sd) == SelectSeq(a, LAMBDA x : Member(x, b, sd))

\* a.union(b)
Union(a, b, sd) == a \o SelectSeq(b, LAMBDA x : ~Member(x, a, sd))

\* a ^ b, the symmetric difference in the place of the difference.
DifferenceSymmetric(a, b, sd) ==
    SelectSeq(a, LAMBDA x : ~Member(x, b, sd)) \o SelectSeq(b, LAMBDA x : ~Member(x, a, sd))

\* a - b
Difference(a, b, sd) == SelectSeq(a, LAMBDA x : ~Member(x, b, sd))

RECURSIVE StableSort(_)
\* sorted(...) over <<key, member>> pairs: ascending by key, members with equal
\* keys in the order they have in the argument.
StableSort(pairs) ==
    IF pairs = <<>> THEN <<>>
    ELSE LET front == StableSort(SubSeq(pairs, 1, Len(pairs) - 1))
             x == pairs[Len(pairs)]
             k == Cardinality({i \in 1..Len(front) : front[i][1] <= x[1]})
         IN  SubSeq(front, 1, k) \o <<x>> \o SubSeq(front, k + 1, Len(front))

\* The slot of a member in the hash table.
Slot(g, sd) == GrantHash(g, sd) % 8

\* list(s) of a set s: the members in the order of their slots, members that
\* collide in the order they were added.
SetIter(s, sd) ==
    LET sorted == StableSort([i \in 1..Len(s) |-> <<Slot(s[i], sd), s[i]>>])
    IN  [i \in 1..Len(s) |-> sorted[i][2]]

\* --------------------------------------------------------- PermissionSet

\* get_all_perms leaving out the object and field grants that hold an operation
\* their enumeration lacks.
get_all_perms_recognized(p) ==
    p.system_perms
      \o SelectSeq(p.object_perms,
                   LAMBDA g : Range(g.perms) \subseteq Range(OBJECT_PERMISSIONS))
      \o SelectSeq(p.field_perms,
                   LAMBDA g : Range(g.perms) \subseteq Range(FIELD_PERMISSIONS))
      \o p.setup_entity_access \o p.permission_set_tab_setting

\* PermissionSet.get_all_perms: the five lists, concatenated in this order.
get_all_perms(p) ==
    p.system_perms \o p.object_perms \o p.field_perms
      \o p.setup_entity_access \o p.permission_set_tab_setting

\* ------------------------------------------------------- DuplicateFinder

\* A float as a fraction, and the order of two of them.
Fraction(num, den) == [num |-> num, den |-> den]

One == Fraction(1, 1)

FracGeq(a, b) == a.num * b.den >= b.num * a.den

FracEq(a, b) == a.num * b.den = b.num * a.den

\* similarity > SIMILARITY_THRESHOLD, the comparison made strict.
MeetsThresholdStrict(similarity) ==
    similarity.num * ThresholdDen > ThresholdNum * similarity.den

\* similarity >= DuplicateFinder.SIMILARITY_THRESHOLD
MeetsThreshold(similarity) ==
    FracGeq(similarity, Fraction(ThresholdNum, ThresholdDen))

\* The loop body without its second if: a pair of empty sets is dropped.
PairEntriesNoEmptyCase(ps, i, j, sd) ==
    LET perms_i == ToSet(get_all_perms(ps[i]), sd)
        perms_j == ToSet(get_all_perms(ps[j]), sd)
        intersection == Intersection(perms_i, perms_j, sd)
        union == Union(perms_i, perms_j, sd)
        similarity == Fraction(Len(intersection), Len(union))
    IN  IF union /= <<>> /\ MeetsThreshold(similarity)
        THEN <<JaccardDifference(i, j, similarity)>>
        ELSE <<>>

\* The loop body dividing by len(perms_i) instead of len(union).
PairEntriesOverFirst(ps, i, j, sd) ==
    LET perms_i == ToSet(get_all_perms(ps[i]), sd)
        perms_j == ToSet(get_all_perms(ps[j]), sd)
        intersection == Intersection(perms_i, perms_j, sd)
        union == Union(perms_i, perms_j, sd)
        similarity == Fraction(Len(intersection), Len(perms_i))
    IN  (IF union /= <<>> /\ perms_i /= <<>> /\ MeetsThreshold(similarity)
         THEN <<JaccardDifference(i, j, similarity)>>
         ELSE <<>>)
        \o (IF union = <<>> /\ intersection = <<>>
            THEN <<JaccardDifference(i, j, One)>>
            ELSE <<>>)

\* The body of jaccard's inner loop for the pair (i, j): what it appends to
\* duplicates.
PairEntries(ps, i, j, sd) ==
    LET perms_i == ToSet(get_all_perms(ps[i]), sd)
        perms_j == ToSet(get_all_perms(ps[j]), sd)
        intersection == Intersection(perms_i, perms_j, sd)
        union == Union(perms_i, perms_j, sd)
        similarity == Fraction(Len(intersection), Len(union))
    IN  (IF union /= <<>> /\ MeetsThreshold(similarity)
         THEN <<JaccardDifference(i, j, similarity)>>
         ELSE <<>>)
        \o (IF union = <<>> /\ intersection = <<>>
            THEN <<JaccardDifference(i, j, One)>>
            ELSE <<>>)

RECURSIVE InnerLoop(_, _, _, _)
\* for j in range(i + 1, nb_permsets), from j on.
InnerLoop(ps, i, j, sd) ==
    IF j > Len(ps) THEN <<>>
    ELSE PairEntries(ps, i, j, sd) \o InnerLoop(ps, i, j + 1, sd)

RECURSIVE OuterLoopFromSelf(_, _, _)
\* The outer loop with the inner one over range(i, nb_permsets).
OuterLoopFromSelf(ps, i, sd) ==
    IF i > Len(ps) THEN <<>>
    ELSE InnerLoop(ps, i, i, sd) \o OuterLoopFromSelf(ps, i + 1, sd)

RECURSIVE OuterLoop(_, _, _)
\* for i in range(nb_permsets), from i on.
OuterLoop(ps, i, sd) ==
    IF i > Len(ps) THEN <<>>
    ELSE InnerLoop(ps, i, i + 1, sd) \o OuterLoop(ps, i + 1, sd)

RECURSIVE SortedBySimilarityReversed(_)
\* A descending sort that is not stable: the ascending sort, reversed.
SortedBySimilarityReversed(ds) ==
    IF ds = <<>> THEN <<>>
    ELSE LET front == SortedBySimilarityReversed(SubSeq(ds, 1, Len(ds) - 1))
             x == ds[Len(ds)]
             k == Cardinality({i \in 1..Len(front) :
                                 ~FracGeq(x.similarity, front[i].similarity)})
         IN  SubSeq(front, 1, k) \o <<x>> \o SubSeq(front, k + 1, Len(front))

RECURSIVE SortedBySimilarity(_)
\* sorted(duplicates, key=lambda t: t.similarity, reverse=True): descending,
\* entries of equal similarity in the order they were appended.
SortedBySimilarity(ds) ==
    IF ds = <<>> THEN <<>>
    ELSE LET front == SortedBySimilarity(SubSeq(ds, 1, Len(ds) - 1))
             x == ds[Len(ds)]
             k == Cardinality({i \in 1..Len(front) :
                                 FracGeq(front[i].similarity, x.similarity)})
         IN  SubSeq(front, 1, k) \o <<x>> \o SubSeq(front, k + 1, Len(front))

\* DuplicateFinder.jaccard over the list ps.
jaccard(ps, sd) == SortedBySimilarity(OuterLoop(ps, 1, sd))

\* ----------------------------------------------------- JaccardDifference

\* The alphabetical rank of x.__class__.__name__ among the five grant classes.
ClassRank(cls) ==
    CASE cls = "FieldPermissions" -> 1
      [] cls = "ObjectPermissions" -> 2
      [] cls = "PermissionSetTabSetting" -> 3
      [] cls = "SetupEntityAccess" -> 4
      [] cls = "SystemPermission" -> 5

\* sorted(list(s), key=lambda x: x.__class__.__name__)
SortedByClassName(s, sd) ==
    LET members == SetIter(s, sd)
        sorted == StableSort([i \in 1..Len(members) |->
                                 <<ClassRank(members[i].cls), members[i]>>])
    IN  [i \in 1..Len(members) |-> sorted[i][2]]

\* JaccardDifference.common_perms
common_perms(d, ps, sd) ==
    LET perms1 == ToSet(get_all_perms(ps[d.permset1]), sd)
        perms2 == ToSet(get_all_perms(ps[d.permset2]), sd)
    IN  SortedByClassName(Intersection(perms1, perms2, sd), sd)

\* JaccardDifference.permset1_unique_perms
permset1_unique_perms(d, ps, sd) ==
    LET perms1 == ToSet(get_all_perms(ps[d.permset1]), sd)
        perms2 == ToSet(get_all_perms(ps[d.permset2]), sd)
    IN  SortedByClassName(Difference(perms1, perms2, sd), sd)

\* permset2_unique_perms with the operands of the difference as in
\* permset1_unique_perms.
permset2_unique_perms_swapped(d, ps, sd) ==
    LET perms1 == ToSet(get_all_perms(ps[d.permset1]), sd)
        perms2 == ToSet(get_all_perms(ps[d.permset2]), sd)
    IN  SortedByClassName(Difference(perms1, perms2, sd), sd)

\* JaccardDifference.permset2_unique_perms
permset2_unique_perms(d, ps, sd) ==
    LET perms1 == ToSet(get_all_perms(ps[d.permset1]), sd)
        perms2 == ToSet(get_all_perms(ps[d.permset2]), sd)
    IN  SortedByClassName(Difference(perms2, perms1, sd), sd)

\* ------------------------------------------------------------ Connection

\* get_all_system_perms: one SystemPermission per Permissions* field.
get_all_system_perms == [i \in 1..MaxSystemPerms |-> SystemPermission(Strings[i])]

\* get_system_perms: the permissions of all_perms the record holds as True.
get_system_perms(all_perms, response) ==
    SelectSeq(all_perms, LAMBDA p : p.name \in response)

RECURSIVE TrueKeys(_, _)
\* [key for key, value in next_record.items() if (value and key in all_perms)]
TrueKeys(items, all_perms) ==
    IF items = <<>> THEN <<>>
    ELSE LET key == items[1][1]
             value == items[1][2]
             rest == TrueKeys(Tail(items), all_perms)
         IN  IF value /\ key \in Range(all_perms) THEN <<key>> \o rest ELSE rest

\* get_object_perms: one grant per record, even when no flag is left.
get_object_perms(records) ==
    [r \in 1..Len(records) |->
        ObjectPermissions(records[r].SobjectType,
                          TrueKeys(records[r].items, OBJECT_PERMISSIONS))]

\* get_field_perms
get_field_perms(records) ==
    [r \in 1..Len(records) |->
        FieldPermissions(records[r].SobjectType, records[r].Field,
                         TrueKeys(records[r].items, FIELD_PERMISSIONS))]

\* get_setup_entity_access
get_setup_entity_access(records) ==
    [r \in 1..Len(records) |->
        SetupEntityAccess(records[r].SetupEntityType, records[r].SetupEntityId)]

\* get_tab_setting
get_tab_setting(records) ==
    [r \in 1..Len(records) |->
        PermissionSetTabSetting(records[r].Name, records[r].Visibility)]

\* ------------------------------------------------- the org's responses

Seeds == 0..(NumSeeds - 1)

Ids == <<"0PS1", "0PS2", "0PS3", "0PS4">>

\* A PermissionSet record's Permissions* flags, as the set of those that are
\* True: the first k the org defines.
SystemResponse(k) == {Strings[i] : i \in 1..k}

\* What main's loop is answered: all the system permissions, or all but one.
SystemResponses == {SystemResponse(k) : k \in {MaxSystemPerms - 1, MaxSystemPerms}}

\* An ObjectPermissions record: its items in the order the response lists them.
ReadEditRecord ==
    [SobjectType |-> "Account",
     items |-> <<<<"SobjectType", TRUE>>, <<"PermissionsCreate", FALSE>>,
                 <<"PermissionsRead", TRUE>>, <<"PermissionsEdit", TRUE>>>>]

\* The same flags listed the other way round, and a flag the enumeration lacks.
EditReadRecord ==
    [SobjectType |-> "Account",
     items |-> <<<<"SobjectType", TRUE>>, <<"PermissionsBogus", TRUE>>,
                 <<"PermissionsEdit", TRUE>>, <<"PermissionsRead", TRUE>>>>]

ObjectResponses == {<<>>, <<ReadEditRecord>>, <<EditReadRecord>>}

\* A PermissionSet as get_permsets builds it: no license, no grants yet.
NewPermset(i) == PermissionSet(Ids[i], "Sales", "Sales", None, None)

\* The bundle p after one turn of main's loop: the five lists assigned.
Populated(p, sys, obj, fld, sea, tab) ==
    [p EXCEPT !.system_perms = get_system_perms(get_all_system_perms, sys),
              !.object_perms = get_object_perms(obj),
              !.field_perms = get_field_perms(fld),
              !.setup_entity_access = get_setup_entity_access(sea),
              !.permission_set_tab_setting = get_tab_setting(tab)]

\* ---------------------------------------------------------------- actions

NoRet == [op |-> "none", d |-> 0, value |-> <<>>]

NoFile == [exists |-> FALSE, data |-> <<>>]

\* main after get_permsets: the bundles are there, none is populated.
Init ==
    /\ \E n \in 0..MaxLoaded : permsets = [i \in 1..n |-> NewPermset(i)]
    /\ loaded = 0
    /\ file = NoFile
    /\ duplicates = <<>>
    /\ ret = NoRet
    /\ seed \in Seeds
    /\ pc = "load"

\* One turn of main's loop: the next bundle's five lists are fetched and
\* assigned. The org holds no field permission, setup entity access or tab
\* setting.
LoadPermset ==
    /\ loaded < Len(permsets)
    /\ \E sys \in SystemResponses, obj \in ObjectResponses :
          permsets' = [permsets EXCEPT ![loaded + 1] =
                          Populated(@, sys, obj, <<>>, <<>>, <<>>)]
    /\ loaded' = loaded + 1
    /\ pc' = IF pc = "load" THEN "load" ELSE "modified"
    /\ ret' = NoRet
    /\ UNCHANGED <<file, duplicates, seed>>

\* jaccard() over a get_all_perms that extends the bundle's own system_perms
\* list instead of a new one.
JaccardInPlace ==
    /\ duplicates' = jaccard(permsets, seed)
    /\ permsets' = [i \in 1..Len(permsets) |->
                      [permsets[i] EXCEPT !.system_perms = get_all_perms(permsets[i])]]
    /\ pc' = "found"
    /\ ret' = NoRet
    /\ UNCHANGED <<loaded, file, seed>>

\* duplicates = finder.jaccard()
Jaccard ==
    /\ duplicates' = jaccard(permsets, seed)
    /\ pc' = "found"
    /\ ret' = NoRet
    /\ UNCHANGED <<permsets, loaded, file, seed>>

\* duplicate.common_perms()
CommonPerms ==
    /\ \E k \in 1..Len(duplicates) :
          ret' = [op |-> "common_perms", d |-> k,
                  value |-> common_perms(duplicates[k], permsets, seed)]
    /\ UNCHANGED <<permsets, loaded, file, duplicates, seed, pc>>

\* duplicate.permset1_unique_perms()
Permset1UniquePerms ==
    /\ \E k \in 1..Len(duplicates) :
          ret' = [op |-> "permset1_unique_perms", d |-> k,
                  value |-> permset1_unique_perms(duplicates[k], permsets, seed)]
    /\ UNCHANGED <<permsets, loaded, file, duplicates, seed, pc>>

\* duplicate.permset2_unique_perms()
Permset2UniquePerms ==
    /\ \E k \in 1..Len(duplicates) :
          ret' = [op |-> "permset2_unique_perms", d |-> k,
                  value |-> permset2_unique_perms(duplicates[k], permsets, seed)]
    /\ UNCHANGED <<permsets, loaded, file, duplicates, seed, pc>>

Next ==
    \/ LoadPermset
    \/ Jaccard
    \/ CommonPerms
    \/ Permset1UniquePerms
    \/ Permset2UniquePerms

Spec == Init /\ [][Next]_vars

\* ------------------------------------------- jaccard on a list of bundles

\* The bundles of these lists hold no system permission, one, all but one or
\* all, and no object permission or one.
FindBundles(i) ==
    {Populated(NewPermset(i), SystemResponse(k), obj, <<>>, <<>>, <<>>) :
        k \in {0, 1, MaxSystemPerms - 1, MaxSystemPerms},
        obj \in {<<>>, <<ReadEditRecord>>}}

RECURSIVE FindInputs(_)
\* Every list of n populated bundles.
FindInputs(n) ==
    IF n = 0 THEN {<<>>}
    ELSE {Append(ps, p) : ps \in FindInputs(n - 1), p \in FindBundles(n)}

\* A finder constructed on a populated list.
InitFind ==
    /\ \E n \in 0..MaxPermsets : permsets \in FindInputs(n)
    /\ loaded = Len(permsets)
    /\ file = NoFile
    /\ duplicates = <<>>
    /\ ret = NoRet
    /\ seed \in Seeds
    /\ pc = "load"

NextFind == Jaccard

SpecFind == InitFind /\ [][NextFind]_vars

\* ------------------------------------------------------- the JSON cache

\* A JSON document: null and a string are tagged, an array is a sequence, an
\* object is a record of its members.
JsonNull == [json |-> "null"]

JsonString(s) == [json |-> "string", s |-> s]

\* json.dump of a dataclass field: None, a str, or the list of str of perms.
JsonDump(key, value) ==
    IF key = "perms" THEN [i \in 1..Len(value) |-> JsonString(value[i])]
    ELSE IF value = None THEN JsonNull
    ELSE JsonString(value)

\* json.load of a null or a string.
JsonLoad(j) == IF j.json = "null" THEN None ELSE j.s

\* json.load of an array of strings.
JsonLoadList(js) == [i \in 1..Len(js) |-> JsonLoad(js[i])]

\* asdict of a grant, dumped: an object of its fields; the class is not written.
GrantToJson(g) == [key \in (DOMAIN g) \ {"cls"} |-> JsonDump(key, g[key])]

GrantsToJson(gs) == [i \in 1..Len(gs) |-> GrantToJson(gs[i])]

\* asdict(p), dumped.
PermsetToJson(p) ==
    [id |-> JsonDump("id", p.id),
     name |-> JsonDump("name", p.name),
     label |-> JsonDump("label", p.label),
     user_license |-> JsonDump("user_license", p.user_license),
     permission_set_license |-> JsonDump("permission_set_license", p.permission_set_license),
     system_perms |-> GrantsToJson(p.system_perms),
     object_perms |-> GrantsToJson(p.object_perms),
     field_perms |-> GrantsToJson(p.field_perms),
     setup_entity_access |-> GrantsToJson(p.setup_entity_access),
     permission_set_tab_setting |-> GrantsToJson(p.permission_set_tab_setting)]

\* write_json: json.dump([asdict(p) for p in permsets], file)
write_json(ps) == [i \in 1..Len(ps) |-> PermsetToJson(ps[i])]

\* d.get(key) of a scalar member: None when the object lacks it.
GetScalar(d, key) == IF key \in DOMAIN d THEN JsonLoad(d[key]) ELSE None

\* d.get(key, []) of a list member.
GetList(d, key) == IF key \in DOMAIN d THEN d[key] ELSE <<>>

\* The PermissionSet read_json builds with the two licenses taken from each
\* other's member.
PermsetFromJsonSwapped(d) ==
    [id |-> JsonLoad(d.id),
     name |-> JsonLoad(d.name),
     label |-> JsonLoad(d.label),
     user_license |-> GetScalar(d, "permission_set_license"),
     permission_set_license |-> GetScalar(d, "user_license"),
     system_perms |->
        [i \in 1..Len(GetList(d, "system_perms")) |->
            SystemPermission(JsonLoad(GetList(d, "system_perms")[i].name))],
     object_perms |->
        [i \in 1..Len(GetList(d, "object_perms")) |->
            LET op == GetList(d, "object_perms")[i]
            IN  ObjectPermissions(JsonLoad(op.sobject_type), JsonLoadList(op.perms))],
     field_perms |->
        [i \in 1..Len(GetList(d, "field_perms")) |->
            LET fp == GetList(d, "field_perms")[i]
            IN  FieldPermissions(JsonLoad(fp.sobject_type), JsonLoad(fp.sobject_field),
                                 JsonLoadList(fp.perms))],
     setup_entity_access |->
        [i \in 1..Len(GetList(d, "setup_entity_access")) |->
            LET se == GetList(d, "setup_entity_access")[i]
            IN  SetupEntityAccess(JsonLoad(se.setup_entity_type),
                                  JsonLoad(se.setup_entity_id))],
     permission_set_tab_setting |->
        [i \in 1..Len(GetList(d, "permission_set_tab_setting")) |->
            LET ts == GetList(d, "permission_set_tab_setting")[i]
            IN  PermissionSetTabSetting(JsonLoad(ts.name), JsonLoad(ts.visibility))]]

\* The PermissionSet read_json builds from one object of the document.
PermsetFromJson(d) ==
    [id |-> JsonLoad(d.id),
     name |-> JsonLoad(d.name),
     label |-> JsonLoad(d.label),
     user_license |-> GetScalar(d, "user_license"),
     permission_set_license |-> GetScalar(d, "permission_set_license"),
     system_perms |->
        [i \in 1..Len(GetList(d, "system_perms")) |->
            SystemPermission(JsonLoad(GetList(d, "system_perms")[i].name))],
     object_perms |->
        [i \in 1..Len(GetList(d, "object_perms")) |->
            LET op == GetList(d, "object_perms")[i]
            IN  ObjectPermissions(JsonLoad(op.sobject_type), JsonLoadList(op.perms))],
     field_perms |->
        [i \in 1..Len(GetList(d, "field_perms")) |->
            LET fp == GetList(d, "field_perms")[i]
            IN  FieldPermissions(JsonLoad(fp.sobject_type), JsonLoad(fp.sobject_field),
                                 JsonLoadList(fp.perms))],
     setup_entity_access |->
        [i \in 1..Len(GetList(d, "setup_entity_access")) |->
            LET se == GetList(d, "setup_entity_access")[i]
            IN  SetupEntityAccess(JsonLoad(se.setup_entity_type),
                                  JsonLoad(se.setup_entity_id))],
     permission_set_tab_setting |->
        [i \in 1..Len(GetList(d, "permission_set_tab_setting")) |->
            LET ts == GetList(d, "permission_set_tab_setting")[i]
            IN  PermissionSetTabSetting(JsonLoad(ts.name), JsonLoad(ts.visibility))]]

\* read_json: one PermissionSet per object of the document, in its order.
read_json(data) == [i \in 1..Len(data) |-> PermsetFromJson(data[i])]

\* write_json(permsets)
WriteJson ==
    /\ file' = [exists |-> TRUE, data |-> write_json(permsets)]
    /\ ret' = NoRet
    /\ UNCHANGED <<permsets, loaded, duplicates, seed, pc>>

\* A run with --load: permsets = read_json(), in a process of its own.
ReadJson ==
    /\ file.exists
    /\ permsets' = read_json(file.data)
    /\ loaded' = Len(permsets')
    /\ duplicates' = <<>>
    /\ ret' = NoRet
    /\ seed' \in Seeds
    /\ pc' = "load"
    /\ UNCHANGED file

\* The name, licenses and grants of a bundle a caller constructs.
Body(name, ul, psl, sys, obj, fld, sea, tab) ==
    [name |-> name, user_license |-> ul, permission_set_license |-> psl,
     system_perms |-> sys,
     object_perms |-> obj, field_perms |-> fld, setup_entity_access |-> sea,
     permission_set_tab_setting |-> tab]

\* Bundles of every grant class: operations in either order, no operation, an
\* operation the enumerations lack, a grant listed twice, and two grants of
\* different classes with the same field values.
JsonBodies ==
    {Body("Sales", None, None, <<>>, <<>>, <<>>, <<>>, <<>>),
     Body("Sales", "Salesforce", None, <<SystemPermission("PermissionsApi")>>,
          <<ObjectPermissions("Account", <<"PermissionsRead", "PermissionsEdit">>)>>,
          <<>>, <<SetupEntityAccess("TabSet", "DefaultOn")>>, <<>>),
     Body("Support", None, "CRM User", <<SystemPermission("PermissionsApi")>>,
          <<ObjectPermissions("Account", <<"PermissionsEdit", "PermissionsRead">>)>>,
          <<>>, <<>>, <<PermissionSetTabSetting("TabSet", "DefaultOn")>>),
     Body("Support", None, None, <<>>, <<ObjectPermissions("Account", <<>>)>>,
          <<FieldPermissions("Account", "Name", <<>>),
            FieldPermissions("Account", "Name", <<>>)>>, <<>>, <<>>),
     Body("Sales", None, None, <<>>,
          <<ObjectPermissions("Account", <<"PermissionsBogus">>)>>,
          <<>>, <<>>, <<>>),
     Body("Sales", None, None, <<>>, <<>>, <<>>,
          <<SetupEntityAccess("TabSet", "DefaultOn")>>, <<>>),
     Body("Support", None, None, <<>>, <<>>, <<>>, <<>>,
          <<PermissionSetTabSetting("TabSet", "DefaultOn")>>)}

\* A bundle constructed with an id and a body.
Constructed(id, body) ==
    [PermissionSet(id, body.name, body.name, body.user_license,
                   body.permission_set_license)
       EXCEPT !.system_perms = body.system_perms,
              !.object_perms = body.object_perms,
              !.field_perms = body.field_perms,
              !.setup_entity_access = body.setup_entity_access,
              !.permission_set_tab_setting = body.permission_set_tab_setting]

JsonBundles ==
    {Constructed(Ids[k], body) : k \in 1..2, body \in JsonBodies}

\* A list of bundles a caller constructed; two of them may share an id.
InitJson ==
    /\ permsets \in SeqsUpTo(JsonBundles, MaxLoaded)
    /\ loaded = Len(permsets)
    /\ file = NoFile
    /\ duplicates = <<>>
    /\ ret = NoRet
    /\ seed \in Seeds
    /\ pc = "load"

NextJson ==
    \/ WriteJson
    \/ ReadJson
    \/ Jaccard

SpecJson == InitJson /\ [][NextJson]_vars

\* ----------------------------------------------------------------- claims

\* What the specification means by a bundle's grant set: the grants as values,
\* two of them the same when variant and fields are, operations in order.
Grants(p) ==
    Range(p.system_perms) \cup Range(p.object_perms) \cup Range(p.field_perms)
      \cup Range(p.setup_entity_access) \cup Range(p.permission_set_tab_setting)

\* The places in duplicates of the entries for the bundles i and j.
Entries(i, j) ==
    {k \in 1..Len(duplicates) :
        duplicates[k].permset1 = i /\ duplicates[k].permset2 = j}

IndexPairs == {ij \in (1..Len(permsets)) \X (1..Len(permsets)) : ij[1] < ij[2]}

\* C1: after jaccard(), a pair i < j whose grant sets have a non-empty union is
\* in the result if and only if 10 * |Si /\ Sj| >= 9 * |Si \/ Sj|, and the
\* similarity of its entry is |Si /\ Sj| / |Si \/ Sj|.
C1_Threshold ==
    pc = "found" =>
        \A ij \in IndexPairs :
            LET Si == Grants(permsets[ij[1]])
                Sj == Grants(permsets[ij[2]])
                inter == Cardinality(Si \cap Sj)
                union == Cardinality(Si \cup Sj)
            IN  union > 0 =>
                    /\ (Entries(ij[1], ij[2]) /= {}) <=> (10 * inter >= 9 * union)
                    /\ \A k \in Entries(ij[1], ij[2]) :
                          /\ duplicates[k].similarity.den > 0
                          /\ duplicates[k].similarity.num * union
                             = inter * duplicates[k].similarity.den

\* jaccard() has run on a list with a pair at exactly 9/10, which it returned,
\* and a pair at 8/9, which it did not.
C1_Witness ==
    /\ pc = "found"
    /\ \E ij \in IndexPairs :
          LET Si == Grants(permsets[ij[1]])
              Sj == Grants(permsets[ij[2]])
          IN  /\ Cardinality(Si \cap Sj) = 9
              /\ Cardinality(Si \cup Sj) = 10
              /\ Entries(ij[1], ij[2]) /= {}
    /\ \E ij \in IndexPairs :
          LET Si == Grants(permsets[ij[1]])
              Sj == Grants(permsets[ij[2]])
          IN  /\ Cardinality(Si \cap Sj) = 8
              /\ Cardinality(Si \cup Sj) = 9
              /\ Entries(ij[1], ij[2]) = {}

\* C2: after jaccard(), a pair i < j of bundles without any grant has exactly
\* one entry in the result, and its similarity is 1.0.
C2_EmptyPair ==
    pc = "found" =>
        \A ij \in IndexPairs :
            (get_all_perms(permsets[ij[1]]) = <<>> /\ get_all_perms(permsets[ij[2]]) = <<>>)
            => /\ Cardinality(Entries(ij[1], ij[2])) = 1
               /\ \A k \in Entries(ij[1], ij[2]) :
                     duplicates[k].similarity.num = duplicates[k].similarity.den

\* jaccard() has run on a list with two bundles that hold no grant.
C2_Witness ==
    /\ pc = "found"
    /\ \E ij \in IndexPairs :
          /\ get_all_perms(permsets[ij[1]]) = <<>>
          /\ get_all_perms(permsets[ij[2]]) = <<>>
          /\ Entries(ij[1], ij[2]) /= {}

\* (i, j) comes before (k, l) in jaccard's enumeration of the pairs.
PairBefore(a, b) ==
    \/ a.permset1 < b.permset1
    \/ a.permset1 = b.permset1 /\ a.permset2 < b.permset2

\* C3: the result of jaccard() is ordered by similarity, largest first, and
\* entries of equal similarity are in the order of the pair enumeration.
C3_SortedStable ==
    pc = "found" =>
        \A k, l \in 1..Len(duplicates) :
            k < l =>
                /\ FracGeq(duplicates[k].similarity, duplicates[l].similarity)
                /\ FracEq(duplicates[k].similarity, duplicates[l].similarity)
                   => PairBefore(duplicates[k], duplicates[l])

\* jaccard() returned two entries of equal similarity after an entry of a
\* larger one that the enumeration met later.
C3_Witness ==
    /\ pc = "found"
    /\ \E k, l, m \in 1..Len(duplicates) :
          /\ k < l /\ l < m
          /\ ~FracGeq(duplicates[l].similarity, duplicates[k].similarity)
          /\ PairBefore(duplicates[l], duplicates[k])
          /\ FracEq(duplicates[l].similarity, duplicates[m].similarity)

\* C10: for two bundles A and B of the list, jaccard() over [A, B] and over
\* [B, A] return equally many entries (none or one) with the same similarities.
C10_Symmetric ==
    \A ij \in IndexPairs :
        LET ab == jaccard(<<permsets[ij[1]], permsets[ij[2]]>>, seed)
            ba == jaccard(<<permsets[ij[2]], permsets[ij[1]]>>, seed)
        IN  /\ Len(ab) = Len(ba)
            /\ Len(ab) <= 1
            /\ \A k \in 1..Len(ab) : FracEq(ab[k].similarity, ba[k].similarity)

\* jaccard() returned a pair of bundles with different grants, one set within
\* the other, and returns it for the two in the other order as well.
C10_Witness ==
    /\ pc = "found"
    /\ \E ij \in IndexPairs :
          /\ Grants(permsets[ij[1]]) /= Grants(permsets[ij[2]])
          /\ Grants(permsets[ij[1]]) \subseteq Grants(permsets[ij[2]])
          /\ Entries(ij[1], ij[2]) /= {}
          /\ Len(jaccard(<<permsets[ij[2]], permsets[ij[1]]>>, seed)) = 1

\* Every grant a bundle of the list holds.
AllGrants == UNION {Grants(permsets[i]) : i \in 1..Len(permsets)}

\* Two ObjectPermissions or FieldPermissions for the same target whose
\* operations are the same ones in another order.
Reordered(a, b) ==
    /\ a.cls = b.cls
    /\ a.cls \in {"ObjectPermissions", "FieldPermissions"}
    /\ a.sobject_type = b.sobject_type
    /\ a.cls = "FieldPermissions" => a.sobject_field = b.sobject_field
    /\ a.perms /= b.perms
    /\ Range(a.perms) = Range(b.perms)

\* C4: two grants are equal under __eq__ if and only if they are of the same
\* variant and all their fields match, the operations as a sequence; equal
\* grants have equal hashes; and jaccard() counts two grants that differ in the
\* order of their operations as two elements.
C4_GrantEquality ==
    /\ \A a, b \in AllGrants :
          /\ GrantEq(a, b) <=> (a = b)
          /\ Reordered(a, b) => ~GrantEq(a, b)
          /\ a.cls /= b.cls => ~GrantEq(a, b)
          /\ GrantEq(a, b) => GrantHash(a, seed) = GrantHash(b, seed)
    /\ pc = "found" =>
          \A ij \in IndexPairs :
              LET Si == Grants(permsets[ij[1]])
                  Sj == Grants(permsets[ij[2]])
                  inter == Cardinality(Si \cap Sj)
                  union == Cardinality(Si \cup Sj)
              IN  (\E a \in Si, b \in Sj : Reordered(a, b)) =>
                      /\ union >= inter + 2
                      /\ (Entries(ij[1], ij[2]) /= {}) <=> (10 * inter >= 9 * union)
                      /\ \A k \in Entries(ij[1], ij[2]) :
                            duplicates[k].similarity.num * union
                            = inter * duplicates[k].similarity.den

\* jaccard() has run on two bundles that share a grant, hold a grant with the
\* operations [read, edit] in the one and [edit, read] in the other, and hold
\* two grants of different variants with the same hash.
C4_Witness ==
    /\ pc = "found"
    /\ \E ij \in IndexPairs :
          LET Si == Grants(permsets[ij[1]])
              Sj == Grants(permsets[ij[2]])
          IN  /\ \E a \in Si, b \in Sj : Reordered(a, b)
              /\ \E a \in Si, b \in Sj :
                    a.cls /= b.cls /\ GrantHash(a, seed) = GrantHash(b, seed)
              /\ Si \cap Sj /= {}

\* C5: what common_perms() returns holds exactly the grants of both bundles,
\* permset1_unique_perms() those of the first that the second lacks,
\* permset2_unique_perms() those of the second that the first lacks, each once,
\* for the bundles as they are when the accessor is called.
C5_Accessors ==
    ret.op /= "none" =>
        LET d == duplicates[ret.d]
            S1 == Grants(permsets[d.permset1])
            S2 == Grants(permsets[d.permset2])
            expected == CASE ret.op = "common_perms" -> S1 \cap S2
                          [] ret.op = "permset1_unique_perms" -> S1 \ S2
                          [] ret.op = "permset2_unique_perms" -> S2 \ S1
        IN  /\ Range(ret.value) = expected
            /\ Len(ret.value) = Cardinality(expected)
            /\ S1 = S2 =>
                  ret.value = <<>> \/ (ret.op = "common_perms" /\ Range(ret.value) = S1)

\* jaccard() returned a pair as identical, the second bundle was assigned to
\* afterwards, and permset2_unique_perms() returned grants of it.
C5_Witness ==
    /\ pc = "modified"
    /\ ret.op = "permset2_unique_perms"
    /\ ret.value /= <<>>
    /\ duplicates[ret.d].similarity.num = duplicates[ret.d].similarity.den

\* What the accessor op returns for the entry d under the salt sd.
Accessor(op, d, ps, sd) ==
    CASE op = "common_perms" -> common_perms(d, ps, sd)
      [] op = "permset1_unique_perms" -> permset1_unique_perms(d, ps, sd)
      [] op = "permset2_unique_perms" -> permset2_unique_perms(d, ps, sd)

\* C6: the list an accessor returns is sorted by the grants' class names, and
\* it is the same sequence in every run on the same bundles, whatever salt the
\* process drew.
C6_Deterministic ==
    (pc = "found" /\ ret.op /= "none") =>
        /\ \A k, l \in 1..Len(ret.value) :
              k < l => ClassRank(ret.value[k].cls) <= ClassRank(ret.value[l].cls)
        /\ \A sd \in Seeds :
              ret.value = Accessor(ret.op, duplicates[ret.d], permsets, sd)

\* An ObjectPermissions or a FieldPermissions whose operations are all of
\* its enumeration; every grant of another class.
Recognized(g) ==
    /\ g.cls = "ObjectPermissions" => Range(g.perms) \subseteq Range(OBJECT_PERMISSIONS)
    /\ g.cls = "FieldPermissions" => Range(g.perms) \subseteq Range(FIELD_PERMISSIONS)

\* C7, as stated: jaccard() leaves a grant with an unrecognized operation out
\* of the comparison, so the result is the one for the bundles without such
\* grants.
C7_Excluded ==
    pc = "found" =>
        \A ij \in IndexPairs :
            LET Si == {g \in Grants(permsets[ij[1]]) : Recognized(g)}
                Sj == {g \in Grants(permsets[ij[2]]) : Recognized(g)}
                inter == Cardinality(Si \cap Sj)
                union == Cardinality(Si \cup Sj)
            IN  /\ (Entries(ij[1], ij[2]) /= {}) <=> (10 * inter >= 9 * union)
                /\ \A k \in Entries(ij[1], ij[2]) :
                      duplicates[k].similarity.num * (IF union = 0 THEN 1 ELSE union)
                      = (IF union = 0 THEN 1 ELSE inter) * duplicates[k].similarity.den

\* C7, amended: jaccard() returns a result for bundles that hold a grant with
\* an unrecognized operation, and compares that grant like any other: it
\* counts in the union, and in the intersection when the other bundle holds an
\* equal grant.
C7_Compared ==
    pc = "found" =>
        \A ij \in IndexPairs :
            LET Si == Grants(permsets[ij[1]])
                Sj == Grants(permsets[ij[2]])
                inter == Cardinality(Si \cap Sj)
                union == Cardinality(Si \cup Sj)
            IN  (\E g \in Si \cup Sj : ~Recognized(g)) =>
                    /\ (Entries(ij[1], ij[2]) /= {}) <=> (10 * inter >= 9 * union)
                    /\ Cardinality(Entries(ij[1], ij[2])) <= 1
                    /\ \A k \in Entries(ij[1], ij[2]) :
                          duplicates[k].similarity.num * union
                          = inter * duplicates[k].similarity.den

\* jaccard() has run on two bundles that both hold only a grant with an
\* unrecognized operation, and has returned the pair.
C7_Witness ==
    /\ pc = "found"
    /\ \E ij \in IndexPairs :
          /\ \E g \in Grants(permsets[ij[1]]) \cap Grants(permsets[ij[2]]) : ~Recognized(g)
          /\ \A g \in Grants(permsets[ij[1]]) \cup Grants(permsets[ij[2]]) : ~Recognized(g)
          /\ Entries(ij[1], ij[2]) /= {}

\* Two lists of grants of equal length whose members are equal one by one.
SameGrants(xs, ys) ==
    /\ Len(xs) = Len(ys)
    /\ \A k \in 1..Len(xs) : GrantEq(xs[k], ys[k])

\* C8: what read_json() reads from the file write_json() wrote is a list of
\* the same length as the list written, with the same id, name, label and
\* licenses and equal grants in each place.
C8_RoundTrip ==
    file.exists =>
        LET back == read_json(file.data)
        IN  /\ Len(back) = Len(permsets)
            /\ \A i \in 1..Len(permsets) :
                  /\ back[i].id = permsets[i].id
                  /\ back[i].name = permsets[i].name
                  /\ back[i].label = permsets[i].label
                  /\ back[i].user_license = permsets[i].user_license
                  /\ back[i].permission_set_license = permsets[i].permission_set_license
                  /\ SameGrants(back[i].system_perms, permsets[i].system_perms)
                  /\ SameGrants(back[i].object_perms, permsets[i].object_perms)
                  /\ SameGrants(back[i].field_perms, permsets[i].field_perms)
                  /\ SameGrants(back[i].setup_entity_access, permsets[i].setup_entity_access)
                  /\ SameGrants(back[i].permission_set_tab_setting,
                                permsets[i].permission_set_tab_setting)

\* The file holds a list of two bundles: one without a license, with an object
\* and a field grant without operations, the other with a license.
C8_Witness ==
    /\ file.exists
    /\ Len(file.data) = 2
    /\ \E i, j \in 1..Len(permsets) :
          /\ permsets[i].user_license = None
          /\ permsets[i].permission_set_license = None
          /\ \E g \in Range(permsets[i].object_perms) : g.perms = <<>>
          /\ \E g \in Range(permsets[i].field_perms) : g.perms = <<>>
          /\ permsets[j].permission_set_license /= None

\* C9: two bundles are equal and have equal hashes if and only if their ids
\* are equal, whatever their names, labels, licenses and grants.
C9_EqualById ==
    \A i, j \in 1..Len(permsets) :
        (/\ PermissionSetEq(permsets[i], permsets[j])
         /\ PermissionSetHash(permsets[i], seed) = PermissionSetHash(permsets[j], seed))
        <=> (permsets[i].id = permsets[j].id)

\* The list holds two bundles with the same id and different names, licenses
\* and grants.
C9_Witness ==
    \E i, j \in 1..Len(permsets) :
        /\ permsets[i].id = permsets[j].id
        /\ permsets[i].name /= permsets[j].name
        /\ permsets[i].user_license /= permsets[j].user_license
        /\ get_all_perms(permsets[i]) /= get_all_perms(permsets[j])

\* C11: jaccard() on a list of no bundle or of one returns the empty list;
\* on any list, every entry it returns is for two places i < j of the list,
\* and no two entries are for the same two places.
C11_Pairs ==
    pc = "found" =>
        /\ Len(permsets) <= 1 => duplicates = <<>>
        /\ \A k \in 1..Len(duplicates) :
              /\ duplicates[k].permset1 \in 1..Len(permsets)
              /\ duplicates[k].permset2 \in 1..Len(permsets)
              /\ duplicates[k].permset1 < duplicates[k].permset2
        /\ \A k, l \in 1..Len(duplicates) :
              (/\ duplicates[k].permset1 = duplicates[l].permset1
               /\ duplicates[k].permset2 = duplicates[l].permset2) => k = l

\* jaccard() has run on a list of one bundle.
C11_Witness ==
    /\ pc = "found"
    /\ Len(permsets) = 1

\* C12: a call of jaccard() or of one of the three accessors leaves the list
\* of bundles as it was: its length and order, and every bundle's id, name,
\* label, licenses and five lists of grants. Stated as: no step that changes
\* the list is a step of one of the four.
C12_Frame ==
    [][permsets' /= permsets
          => ~(Jaccard \/ CommonPerms \/ Permset1UniquePerms \/ Permset2UniquePerms)]_vars

\* jaccard() and then an accessor have run on two bundles that hold grants of
\* two classes, and the accessor has returned some of them.
C12_Witness ==
    /\ pc = "found"
    /\ ret.op /= "none"
    /\ ret.value /= <<>>
    /\ Len(permsets) = 2
    /\ \A i \in 1..2 : permsets[i].system_perms /= <<>> /\ permsets[i].object_perms /= <<>>

\* C13: for every entry jaccard() returned on bundles not assigned to since,
\* the lists of the three accessors have no grant in common, the similarity
\* is the length of the common list over the sum of the three lengths, or
\* 1.0 when that sum is zero, and it lies between 0.9 and 1.
C13_ScoreAgrees ==
    pc = "found" =>
        \A k \in 1..Len(duplicates) :
            LET d == duplicates[k]
                common == common_perms(d, permsets, seed)
                unique1 == permset1_unique_perms(d, permsets, seed)
                unique2 == permset2_unique_perms(d, permsets, seed)
                total == Len(common) + Len(unique1) + Len(unique2)
            IN  /\ Range(common) \cap Range(unique1) = {}
                /\ Range(common) \cap Range(unique2) = {}
                /\ Range(unique1) \cap Range(unique2) = {}
                /\ total /= 0 => d.similarity.num * total = Len(common) * d.similarity.den
                /\ total = 0 => FracEq(d.similarity, One)
                /\ d.similarity.num * ThresholdDen >= ThresholdNum * d.similarity.den
                /\ d.similarity.num <= d.similarity.den

\* jaccard() returned a pair below 1.0, and an accessor called on that entry
\* returned the grants only one of the two bundles holds.
C13_Witness ==
    /\ pc = "found"
    /\ ret.op \in {"permset1_unique_perms", "permset2_unique_perms"}
    /\ ret.value /= <<>>
    /\ duplicates[ret.d].similarity.num < duplicates[ret.d].similarity.den

====
